---- MODULE Spec2Model ----
(***************************************************************************)
(* Model of package configtest (config/configtest/configtest.go): the      *)
(* reflection walkers setFile, assertFile and setDirectory, the field      *)
(* options, and the driver TestSetDirectory, run over value graphs built   *)
(* from the types of the package's tests.                                  *)
(*                                                                         *)
(* A value graph is a heap of cells.  A cell is one reflect.Value          *)
(* location: its kind k, its static type t, and its contents.  Strings     *)
(* and field names are sequences of tokens, so that strings.HasSuffix,     *)
(* strings.TrimSuffix, config.JoinDir and filepath.Dir/Base are computed   *)
(* rather than assumed.                                                    *)
(***************************************************************************)
EXTENDS Integers, Sequences, FiniteSets, TLC

\* ---------------------------------------------------------------- bounds
\* Number of top-level calls a client makes on one graph.
MaxCalls == 2
\* Depth of the Go call stack: a walk needing more frames overflows it.
MaxDepth == 14
\* Layers of pointer in front of the sample handed to a field option.
MaxPtrs == 2
\* Length of the list of field options handed to a call.
MaxOpts == 2

\* ---------------------------------------------------------------- strings
Empty == <<>>
relPath == <<"hello">>
dirPath == <<"/", "data">>
absPath == <<"/", "data", "hello">>
secret == <<"<secret>">>

\* config.JoinDir: an empty or absolute path is returned as it is, any
\* other path is joined to dir.
JoinDir(dir, path) ==
  IF path = Empty \/ Head(path) = "/" THEN path ELSE dir \o path

\* strings.HasSuffix(name, suffix) on a tokenised field name.
HasSuffix(name, suffix) == Len(name) > 0 /\ name[Len(name)] = suffix

\* strings.TrimSuffix(name, suffix).
TrimSuffix(name, suffix) ==
  IF HasSuffix(name, suffix) THEN SubSeq(name, 1, Len(name) - 1) ELSE name

\* ---------------------------------------------------------------- types
\* The struct types of the tests, and the further record shapes the walkers
\* are run on; each field has a name and is exported or not.
F(name, exp) == [name |-> name, exp |-> exp]

StructFields(t) ==
  CASE t = "configtest.root" ->
         << F(<<"Child">>, TRUE), F(<<"Cyclic">>, TRUE), F(<<"Map">>, TRUE),
            F(<<"Slice">>, TRUE), F(<<"Root", "File">>, TRUE) >>
    [] t = "configtest.cyclic" ->
         << F(<<"Self">>, TRUE), F(<<"Cyclic", "File">>, TRUE) >>
    [] t = "configtest.inner" ->
         << F(<<"Child">>, TRUE), F(<<"Disable">>, TRUE) >>
    [] t = "configtest.fooSetter" ->
         << F(<<"Foo">>, TRUE), F(<<"Foo", "File">>, TRUE),
            F(<<"Extra">>, TRUE), F(<<"Disable">>, TRUE) >>
    [] t = "configtest.barSetter" ->
         << F(<<"Bar", "Files">>, TRUE), F(<<"Extra">>, TRUE),
            F(<<"Disable">>, TRUE) >>
    [] t = "configtest.excludeFile" ->
         << F(<<"Exclude", "File">>, TRUE) >>
    [] t = "configtest.includeFile" ->
         << F(<<"Extra">>, TRUE), F(<<"Disable">>, TRUE) >>
    [] t = "configtest.includeFiles" ->
         << F(<<"Extras">>, TRUE), F(<<"Disable">>, TRUE) >>
    [] t = "configtest.keyPair" ->
         << F(<<"Key">>, TRUE), F(<<"Key", "File">>, TRUE),
            F(<<"Key", "File", "File">>, TRUE) >>
    [] t = "configtest.pairKey" ->
         << F(<<"Key", "File", "File">>, TRUE), F(<<"Key", "File">>, TRUE),
            F(<<"Key">>, TRUE) >>
    [] t = "configtest.hide" ->
         << F(<<"child">>, FALSE), F(<<"Inner">>, TRUE),
            F(<<"name", "File">>, FALSE), F(<<"Inner", "File">>, TRUE) >>
    [] t = "configtest.embed" ->
         << F(<<"Item">>, TRUE), F(<<"Ref">>, TRUE) >>
    [] t = "configtest.table" ->
         << F(<<"Vals">>, TRUE), F(<<"Any">>, TRUE), F(<<"Keys">>, TRUE),
            F(<<"List">>, TRUE) >>
    [] t = "configtest.loop" ->
         << F(<<"M">>, TRUE) >>
    [] t = "configtest.nest" ->
         << F(<<"Mid">>, TRUE) >>
    [] t = "configtest.ring" ->
         << F(<<"S">>, TRUE) >>
    [] t = "configtest.mid" ->
         << F(<<"Item">>, TRUE), F(<<"Back">>, TRUE) >>
    [] OTHER -> << >>

StructTypes ==
  { "configtest.root", "configtest.cyclic", "configtest.inner",
    "configtest.fooSetter", "configtest.barSetter", "configtest.excludeFile",
    "configtest.includeFile", "configtest.includeFiles", "configtest.keyPair",
    "configtest.pairKey", "configtest.hide", "configtest.embed",
    "configtest.table", "configtest.loop", "configtest.nest", "configtest.mid",
    "configtest.ring" }

\* The receiver of the type's SetDirectory method: "ptr" (declared on *T),
\* "val" (declared on T), "none" (T has no such method).
MethodRecv(t) ==
  CASE t \in StructTypes -> "ptr"
    [] t \in {"configtest.setterMap", "configtest.setterSlice"} -> "val"
    [] OTHER -> "none"

\* typ.FieldByName(name): the position of the field, 0 when there is none.
FieldByName(t, name) ==
  LET fs == StructFields(t)
      hit == { i \in 1..Len(fs) : fs[i].name = name }
  IN IF hit = {} THEN 0 ELSE CHOOSE i \in hit : TRUE

\* ---------------------------------------------------------------- cells
Cell(k, t) ==
  [k |-> k, t |-> t, s |-> Empty, sv |-> <<>>, ref |-> 0, elems |-> <<>>,
   keys |-> <<>>, nil |-> FALSE, addr |-> TRUE]

StrV(t, s, a) == [Cell("string", t) EXCEPT !.s = s, !.addr = a]
BoolV(b, a) ==
  [Cell("bool", "bool") EXCEPT !.s = IF b THEN <<"true">> ELSE Empty, !.addr = a]
\* A pointer of type *t; ref = 0 is the nil pointer.
PtrV(t, ref, a) == [Cell("ptr", t) EXCEPT !.ref = ref, !.addr = a]
\* An interface value of static type t holding the cell ref; 0 is nil.
IfaceV(t, ref, a) == [Cell("iface", t) EXCEPT !.ref = ref, !.addr = a]
StructV(t, elems, a) == [Cell("struct", t) EXCEPT !.elems = elems, !.addr = a]
SliceV(t, elems, isnil, a) ==
  [Cell("slice", t) EXCEPT !.elems = elems, !.nil = isnil, !.addr = a]
\* A []string: its elements are kept in the cell.
StrsV(sv, a) == [Cell("slice", "[]string") EXCEPT !.sv = sv, !.addr = a]
MapV(t, keys, elems, isnil, a) ==
  [Cell("map", t) EXCEPT !.keys = keys, !.elems = elems, !.nil = isnil, !.addr = a]

Range(f) == { f[i] : i \in DOMAIN f }

\* isNil(val).
isNil(c) ==
  CASE c.k \in {"ptr", "iface"} -> c.ref = 0
    [] c.k \in {"map", "slice"} -> c.nil
    [] OTHER -> FALSE

\* The cells a walker can step to from cell c.
Children(c) ==
  CASE c.k \in {"ptr", "iface"} -> IF c.ref = 0 THEN {} ELSE {c.ref}
    [] c.k \in {"struct", "slice"} -> Range(c.elems)
    [] c.k = "map" -> Range(c.keys) \cup Range(c.elems)
    [] OTHER -> {}

RECURSIVE Closure(_, _)
Closure(h, cs) ==
  LET more == cs \cup UNION { Children(h[c]) : c \in cs }
  IN IF more = cs THEN cs ELSE Closure(h, more)

\* Every cell of the graph that is reachable from the root value.
Reach(h) == Closure(h, {1})

\* ---------------------------------------------------------------- graphs
\* The cells of one value of each struct type, laid out from cell b on;
\* a says whether the value is addressable.
FooBlock(b, a, foo, file, dis) ==
  << StructV("configtest.fooSetter", <<b + 1, b + 2, b + 3, b + 4>>, a),
     StrV("config.Secret", foo, a), StrV("string", file, a),
     StrV("string", relPath, a), BoolV(dis, a) >>

BarBlock(b, a, files, dis) ==
  << StructV("configtest.barSetter", <<b + 1, b + 2, b + 3>>, a),
     StrsV(files, a), StrV("string", relPath, a), BoolV(dis, a) >>

InnerBlock(b, child, dis) ==
  << StructV("configtest.inner", <<b + 1, b + 2>>, TRUE),
     IfaceV("config.DirectorySetter", child, TRUE), BoolV(dis, TRUE) >>

CyclicBlock(b, self, file) ==
  << StructV("configtest.cyclic", <<b + 1, b + 2>>, TRUE),
     PtrV("configtest.cyclic", self, TRUE), StrV("string", file, TRUE) >>

\* &fooSetter{Foo: b, FooFile: a, Disable: d}
FooGraph(a, b, d) ==
  << PtrV("configtest.fooSetter", 2, FALSE) >> \o FooBlock(2, TRUE, b, a, d)

\* &barSetter{BarFiles: files, Disable: d}
BarGraph(files, d) ==
  << PtrV("configtest.barSetter", 2, FALSE) >> \o BarBlock(2, TRUE, files, d)

\* &includeFile{Extra: a, Disable: d}
IncludeFileGraph(a, d) ==
  << PtrV("configtest.includeFile", 2, FALSE),
     StructV("configtest.includeFile", <<3, 4>>, TRUE),
     StrV("string", a, TRUE), BoolV(d, TRUE) >>

\* &includeFiles{Extras: files, Disable: d}
IncludeFilesGraph(files, d) ==
  << PtrV("configtest.includeFiles", 2, FALSE),
     StructV("configtest.includeFiles", <<3, 4>>, TRUE),
     StrsV(files, TRUE), BoolV(d, TRUE) >>

\* &excludeFile{ExcludeFile: a}
ExcludeFileGraph(a) ==
  << PtrV("configtest.excludeFile", 2, FALSE),
     StructV("configtest.excludeFile", <<3>>, TRUE), StrV("string", a, TRUE) >>

\* &inner{Child: &fooSetter{FooFile: a}, Disable: d}
InnerGraph(a, d) ==
  << PtrV("configtest.inner", 2, FALSE) >> \o InnerBlock(2, 5, d)
    \o << PtrV("configtest.fooSetter", 6, FALSE) >>
    \o FooBlock(6, TRUE, Empty, a, FALSE)

\* c := &cyclic{CyclicFile: a}; c.Self = c
CyclicGraph(a) ==
  << PtrV("configtest.cyclic", 2, FALSE) >> \o CyclicBlock(2, 2, a)

\* c := &cyclic{CyclicFile: a}; c.Self = &cyclic{Self: c, CyclicFile: b}
ChainGraph(a, b) ==
  << PtrV("configtest.cyclic", 2, FALSE) >> \o CyclicBlock(2, 5, a)
    \o CyclicBlock(5, 2, b)

\* The root of Test_SetFile, with one element of each shape:
\* &root{Child: &inner{Child: &fooSetter{}}, Cyclic: c (c.Self = c),
\*       Map: setterMap{"foo": &fooSetter{}, "nil": nil},
\*       Slice: setterSlice{&barSetter{}, nil}, RootFile: a}
RootGraph(a, files) ==
  << PtrV("configtest.root", 2, FALSE),
     StructV("configtest.root", <<3, 4, 5, 6, 7>>, TRUE),
     IfaceV("config.DirectorySetter", 8, TRUE),
     PtrV("configtest.cyclic", 18, TRUE),
     MapV("configtest.setterMap", <<21, 22>>, <<23, 24>>, FALSE, TRUE),
     SliceV("configtest.setterSlice", <<31, 32>>, FALSE, TRUE),
     StrV("string", a, TRUE),
     PtrV("configtest.inner", 9, FALSE) >>                      \* 1..8
    \o InnerBlock(9, 12, FALSE)                                 \* 9..11
    \o << PtrV("configtest.fooSetter", 13, FALSE) >>            \* 12
    \o FooBlock(13, TRUE, secret, a, FALSE)                     \* 13..17
    \o CyclicBlock(18, 18, a)                                   \* 18..20
    \o << StrV("string", <<"foo">>, FALSE), StrV("string", <<"nil">>, FALSE),
          IfaceV("config.DirectorySetter", 25, FALSE),
          IfaceV("config.DirectorySetter", 0, FALSE),
          PtrV("configtest.fooSetter", 26, FALSE) >>            \* 21..25
    \o FooBlock(26, TRUE, Empty, a, FALSE)                      \* 26..30
    \o << IfaceV("config.DirectorySetter", 33, TRUE),
          IfaceV("config.DirectorySetter", 0, TRUE),
          PtrV("configtest.barSetter", 34, FALSE) >>            \* 31..33
    \o BarBlock(34, TRUE, files, FALSE)                         \* 34..37

\* setterSlice{&fooSetter{FooFile: v[1]}, ..., &fooSetter{FooFile: v[4]}}
SliceGraph(v) ==
  << SliceV("configtest.setterSlice", <<2, 3, 4, 5>>, FALSE, FALSE),
     IfaceV("config.DirectorySetter", 6, TRUE),
     IfaceV("config.DirectorySetter", 7, TRUE),
     IfaceV("config.DirectorySetter", 8, TRUE),
     IfaceV("config.DirectorySetter", 9, TRUE),
     PtrV("configtest.fooSetter", 10, FALSE),
     PtrV("configtest.fooSetter", 15, FALSE),
     PtrV("configtest.fooSetter", 20, FALSE),
     PtrV("configtest.fooSetter", 25, FALSE) >>
    \o FooBlock(10, TRUE, Empty, v[1], FALSE)
    \o FooBlock(15, TRUE, Empty, v[2], FALSE)
    \o FooBlock(20, TRUE, Empty, v[3], FALSE)
    \o FooBlock(25, TRUE, Empty, v[4], FALSE)

\* setterMap{"a": &fooSetter{FooFile: v[1]}, "b": ..., "c": ...}
MapGraph(v) ==
  << MapV("configtest.setterMap", <<2, 3, 4>>, <<5, 6, 7>>, FALSE, FALSE),
     StrV("string", <<"a">>, FALSE), StrV("string", <<"b">>, FALSE),
     StrV("string", <<"c">>, FALSE),
     IfaceV("config.DirectorySetter", 8, FALSE),
     IfaceV("config.DirectorySetter", 9, FALSE),
     IfaceV("config.DirectorySetter", 10, FALSE),
     PtrV("configtest.fooSetter", 11, FALSE),
     PtrV("configtest.fooSetter", 16, FALSE),
     PtrV("configtest.fooSetter", 21, FALSE) >>
    \o FooBlock(11, TRUE, Empty, v[1], FALSE)
    \o FooBlock(16, TRUE, Empty, v[2], FALSE)
    \o FooBlock(21, TRUE, Empty, v[3], FALSE)

\* p := &fooSetter{FooFile: a}; setterSlice{p, p}
SharedGraph(a) ==
  << SliceV("configtest.setterSlice", <<2, 3>>, FALSE, FALSE),
     IfaceV("config.DirectorySetter", 4, TRUE),
     IfaceV("config.DirectorySetter", 5, TRUE),
     PtrV("configtest.fooSetter", 6, FALSE),
     PtrV("configtest.fooSetter", 6, FALSE) >>
    \o FooBlock(6, TRUE, Empty, a, FALSE)

\* &keyPair{Key: k, KeyFile: a, KeyFileFile: b}, and the same fields
\* declared in the opposite order (pairKey).
KeyPairGraph(k, a, b) ==
  << PtrV("configtest.keyPair", 2, FALSE),
     StructV("configtest.keyPair", <<3, 4, 5>>, TRUE),
     StrV("string", k, TRUE), StrV("string", a, TRUE), StrV("string", b, TRUE) >>

PairKeyGraph(k, a, b) ==
  << PtrV("configtest.pairKey", 2, FALSE),
     StructV("configtest.pairKey", <<3, 4, 5>>, TRUE),
     StrV("string", b, TRUE), StrV("string", a, TRUE), StrV("string", k, TRUE) >>

\* &hide{child: &fooSetter{FooFile: a}, Inner: &fooSetter{FooFile: a},
\*       nameFile: a, InnerFile: a}
HideGraph(a) ==
  << PtrV("configtest.hide", 2, FALSE),
     StructV("configtest.hide", <<3, 4, 5, 6>>, TRUE),
     PtrV("configtest.fooSetter", 7, TRUE),
     PtrV("configtest.fooSetter", 12, TRUE),
     StrV("string", a, TRUE), StrV("string", a, TRUE) >>
    \o FooBlock(7, TRUE, Empty, a, FALSE)
    \o FooBlock(12, TRUE, Empty, a, FALSE)

\* e := &embed{Item: cyclic{CyclicFile: a}}; e.Item.Self = &e.Item;
\* e.Ref = &e.Item when ref, nil otherwise.
EmbedGraph(a, ref) ==
  << PtrV("configtest.embed", 2, FALSE),
     StructV("configtest.embed", <<3, 6>>, TRUE) >>
    \o CyclicBlock(3, 3, a)
    \o << PtrV("configtest.cyclic", IF ref THEN 3 ELSE 0, TRUE) >>

\* &table{Vals: map[string]fooSetter{"v": {FooFile: a}},
\*        Any:  fooSetter{FooFile: a},
\*        Keys: map[*fooSetter]bool{&fooSetter{FooFile: a}: true},
\*        List: []barSetter{{BarFiles: []string{a}}}}
TableGraph(a) ==
  << PtrV("configtest.table", 2, FALSE),
     StructV("configtest.table", <<3, 4, 5, 6>>, TRUE),
     MapV("map[string]configtest.fooSetter", <<7>>, <<8>>, FALSE, TRUE),
     IfaceV("interface {}", 13, TRUE),
     MapV("map[*configtest.fooSetter]bool", <<18>>, <<19>>, FALSE, TRUE),
     SliceV("[]configtest.barSetter", <<25>>, FALSE, TRUE),
     StrV("string", <<"v">>, FALSE) >>                          \* 1..7
    \o FooBlock(8, FALSE, Empty, a, FALSE)                      \* 8..12
    \o FooBlock(13, FALSE, Empty, a, FALSE)                     \* 13..17
    \o << PtrV("configtest.fooSetter", 20, FALSE), BoolV(TRUE, FALSE) >>
    \o FooBlock(20, TRUE, Empty, a, FALSE)                      \* 20..24
    \o BarBlock(25, TRUE, <<a>>, FALSE)                         \* 25..28

\* setterMap{"x": (*fooSetter)(nil)}: a non-nil interface value holding a
\* nil pointer.
TypedNilGraph ==
  << MapV("configtest.setterMap", <<2>>, <<3>>, FALSE, FALSE),
     StrV("string", <<"x">>, FALSE),
     IfaceV("config.DirectorySetter", 4, FALSE),
     PtrV("configtest.fooSetter", 0, FALSE) >>

\* l := &loop{M: map[string]interface{}{}}; l.M["self"] = l.M
LoopGraph ==
  << PtrV("configtest.loop", 2, FALSE),
     StructV("configtest.loop", <<3>>, TRUE),
     MapV("map[string]interface {}", <<4>>, <<5>>, FALSE, TRUE),
     StrV("string", <<"self">>, FALSE),
     IfaceV("interface {}", 6, FALSE),
     MapV("map[string]interface {}", <<4>>, <<5>>, FALSE, FALSE) >>

\* r := &ring{S: []interface{}{nil}}; r.S[0] = r.S
RingGraph ==
  << PtrV("configtest.ring", 2, FALSE),
     StructV("configtest.ring", <<3>>, TRUE),
     SliceV("[]interface {}", <<4>>, FALSE, TRUE),
     IfaceV("interface {}", 5, TRUE),
     SliceV("[]interface {}", <<4>>, FALSE, FALSE) >>

\* n := &nest{Mid: mid{Item: cyclic{CyclicFile: a}}};
\* n.Mid.Item.Self = &n.Mid.Item; n.Mid.Back = &n.Mid
NestGraph(a) ==
  << PtrV("configtest.nest", 2, FALSE),
     StructV("configtest.nest", <<3>>, TRUE),
     StructV("configtest.mid", <<4, 7>>, TRUE) >>
    \o CyclicBlock(4, 4, a)
    \o << PtrV("configtest.mid", 3, TRUE) >>

\* ---------------------------------------------------------------- inputs
Vals == {Empty, relPath, absPath}
Files == { <<>>, <<relPath>>, <<absPath, relPath>>, <<absPath, relPath, absPath, relPath>> }

In(g, a, b, fs, d) == [g |-> g, a |-> a, b |-> b, fs |-> fs, d |-> d]

\* The graphs the operations are run on, by name and parameters.
Inputs ==
  { In("foo", a, b, <<>>, d) : a \in Vals, b \in {Empty, secret}, d \in BOOLEAN }
  \cup { In("bar", Empty, Empty, fs, d) : fs \in Files, d \in BOOLEAN }
  \cup { In("includeFile", a, Empty, <<>>, d) : a \in Vals, d \in BOOLEAN }
  \cup { In("includeFiles", Empty, Empty, fs, d) : fs \in Files \ {<<>>}, d \in BOOLEAN }
  \cup { In("excludeFile", a, Empty, <<>>, FALSE) : a \in Vals }
  \cup { In("inner", a, Empty, <<>>, d) : a \in Vals, d \in BOOLEAN }
  \cup { In("cyclic", a, Empty, <<>>, FALSE) : a \in Vals }
  \cup { In("chain", a, relPath, <<>>, FALSE) : a \in Vals }
  \cup { In("root", relPath, Empty, <<relPath>>, FALSE) }
  \cup { In("slice", Empty, Empty, <<absPath, relPath, absPath, relPath>>, FALSE) }
  \cup { In("map", Empty, Empty, <<relPath, relPath, absPath>>, FALSE) }
  \cup { In("shared", relPath, Empty, <<>>, FALSE) }
  \cup { In("keyPair", a, b, <<>>, d) : a \in Vals, b \in {Empty, absPath}, d \in BOOLEAN }
  \cup { In("hide", relPath, Empty, <<>>, FALSE) }
  \cup { In("embed", relPath, Empty, <<>>, d) : d \in BOOLEAN }
  \cup { In("table", relPath, Empty, <<>>, FALSE) }
  \cup { In("typednil", Empty, Empty, <<>>, FALSE) }
  \cup { In("loop", Empty, Empty, <<>>, FALSE) }
  \cup { In("nest", relPath, Empty, <<>>, FALSE) }
  \cup { In("ring", Empty, Empty, <<>>, FALSE) }

Graph(in) ==
  CASE in.g = "foo" -> FooGraph(in.a, in.b, in.d)
    [] in.g = "bar" -> BarGraph(in.fs, in.d)
    [] in.g = "includeFile" -> IncludeFileGraph(in.a, in.d)
    [] in.g = "includeFiles" -> IncludeFilesGraph(in.fs, in.d)
    [] in.g = "excludeFile" -> ExcludeFileGraph(in.a)
    [] in.g = "inner" -> InnerGraph(in.a, in.d)
    [] in.g = "cyclic" -> CyclicGraph(in.a)
    [] in.g = "chain" -> ChainGraph(in.a, in.b)
    [] in.g = "root" -> RootGraph(in.a, in.fs)
    [] in.g = "slice" -> SliceGraph(in.fs)
    [] in.g = "map" -> MapGraph(in.fs)
    [] in.g = "shared" -> SharedGraph(in.a)
    [] in.g = "keyPair" ->
         IF in.d THEN KeyPairGraph(relPath, in.a, in.b)
         ELSE PairKeyGraph(relPath, in.a, in.b)
    [] in.g = "hide" -> HideGraph(in.a)
    [] in.g = "embed" -> EmbedGraph(in.a, in.d)
    [] in.g = "table" -> TableGraph(in.a)
    [] in.g = "typednil" -> TypedNilGraph
    [] in.g = "nest" -> NestGraph(in.a)
    [] in.g = "ring" -> RingGraph
    [] OTHER -> LoopGraph

\* A graph is laid out consistently: references stay inside the heap, a
\* struct has one cell per declared field, and a cell is addressable exactly
\* when reflection would make it so.
WellFormed(h) ==
  /\ ~h[1].addr
  /\ \A c \in DOMAIN h :
       /\ Children(h[c]) \subseteq DOMAIN h
       /\ h[c].k = "struct" =>
            /\ Len(h[c].elems) = Len(StructFields(h[c].t))
            /\ Len(h[c].elems) > 0
            /\ \A i \in DOMAIN h[c].elems : h[h[c].elems[i]].addr = h[c].addr
       /\ (h[c].k = "ptr" /\ h[c].ref # 0) =>
            h[h[c].ref].addr /\ h[h[c].ref].t = h[c].t
       /\ (h[c].k = "iface" /\ h[c].ref # 0) => ~h[h[c].ref].addr
       /\ h[c].k = "map" =>
            /\ Len(h[c].keys) = Len(h[c].elems)
            /\ \A x \in Range(h[c].keys) \cup Range(h[c].elems) : ~h[x].addr
       /\ h[c].k = "slice" => \A x \in Range(h[c].elems) : h[x].addr

\* ---------------------------------------------------------------- options
\* A sample value's type: base type t behind ptrs layers of pointer.
Sample(ptrs, t) == [ptrs |-> ptrs, base |-> t]

\* typ.Kind() of a sample's type, as far as structField tells kinds apart.
Kind(typ) ==
  IF typ.ptrs > 0 THEN "ptr"
  ELSE IF typ.base \in StructTypes THEN "struct" ELSE "other"

\* ptrType stripping one layer of pointer only.
ptrTypeOnce(typ) ==
  IF Kind(typ) = "ptr" THEN [typ EXCEPT !.ptrs = @ - 1] ELSE typ

\* ptrType(typ): strips every pointer layer.
RECURSIVE ptrType(_)
ptrType(typ) ==
  IF Kind(typ) = "ptr" THEN ptrType([typ EXCEPT !.ptrs = @ - 1]) ELSE typ

\* structField(strukt, name): the field descriptor, or the panic raised.
structField(strukt, name) ==
  LET typ == ptrType(strukt)
  IN IF Kind(typ) # "struct"
       THEN [Struct |-> typ.base, Name |-> name, err |-> "invalid struct"]
     ELSE IF FieldByName(typ.base, name) = 0
       THEN [Struct |-> typ.base, Name |-> name, err |-> "invalid field"]
     ELSE [Struct |-> typ.base, Name |-> name, err |-> ""]

\* The descriptor the walkers build for field name of struct type t.
FieldKey(t, name) == [Struct |-> t, Name |-> name, err |-> ""]

\* IncludeField(strukt, name) and ExcludeField(strukt, name): the option,
\* a function from fields to fields.
IncludeField(strukt, name) ==
  [kind |-> "include", key |-> structField(strukt, name)]

ExcludeField(strukt, name) ==
  [kind |-> "exclude", key |-> structField(strukt, name)]

NoFields == [include |-> {}, exclude |-> {}]

\* ApplyOption where the last option given for a field wins.
ApplyOptionLast(o, fn) ==
  IF fn.kind = "include"
    THEN [include |-> o.include \cup {fn.key}, exclude |-> o.exclude \ {fn.key}]
    ELSE [include |-> o.include \ {fn.key}, exclude |-> o.exclude \cup {fn.key}]

\* fn(opts): the effect of one option on the fields.
ApplyOption(o, fn) ==
  IF fn.kind = "include"
    THEN [o EXCEPT !.include = @ \cup {fn.key}]
    ELSE [o EXCEPT !.exclude = @ \cup {fn.key}]

\* for _, fn := range options { fn(opts) }
RECURSIVE ApplyOptions(_, _)
ApplyOptions(o, options) ==
  IF options = <<>> THEN o
  ELSE ApplyOptions(ApplyOption(o, Head(options)), Tail(options))

\* One call the caller makes to build an option: IncludeField(strukt, name)
\* or ExcludeField(strukt, name).
Ask(kind, strukt, name) == [kind |-> kind, strukt |-> strukt, name |-> name]

\* The option calls a caller may make with each graph.
Candidates(in) ==
  CASE in.g = "includeFile" ->
         { Ask("include", Sample(0, "configtest.includeFile"), <<"Extra">>),
           Ask("exclude", Sample(1, "configtest.includeFile"), <<"Extra">>),
           Ask("include", Sample(0, "configtest.setterSlice"), <<"Nope">>),
           Ask("exclude", Sample(MaxPtrs, "configtest.includeFile"), <<"Nope">>) }
    [] in.g = "includeFiles" ->
         { Ask("include", Sample(1, "configtest.includeFiles"), <<"Extras">>),
           Ask("exclude", Sample(0, "configtest.includeFiles"), <<"Extras">>) }
    [] in.g = "excludeFile" ->
         { Ask("exclude", Sample(0, "configtest.excludeFile"), <<"Exclude", "File">>),
           Ask("include", Sample(0, "configtest.excludeFile"), <<"Exclude", "File">>) }
    [] in.g = "keyPair" ->
         { Ask("include", Sample(0, IF in.d THEN "configtest.keyPair" ELSE "configtest.pairKey"), <<"Key">>),
           Ask("exclude", Sample(0, IF in.d THEN "configtest.keyPair" ELSE "configtest.pairKey"), <<"Key">>) }
    [] in.g = "hide" ->
         { Ask("exclude", Sample(MaxPtrs, "configtest.hide"), <<"Inner">>) }
    [] in.g = "cyclic" ->
         { Ask("include", Sample(1, "configtest.cyclic"), <<"Cyclic", "File">>),
           Ask("exclude", Sample(0, "configtest.cyclic"), <<"Cyclic", "File">>) }
    [] OTHER -> {}

SeqsUpTo(S, n) == UNION { [1..k -> S] : k \in 0..n }

OptionLists(in) == SeqsUpTo(Candidates(in), MaxOpts)

\* ---------------------------------------------------------------- state
VARIABLES
  input,    \* the graph handed to the client or returned by the loader
  options,  \* the list of field options of the calls, as built so far
  pending,  \* the IncludeField and ExcludeField calls the caller has yet to make
  mode,     \* "client": calls of SetFile/AssertFile/SetDirectory;
            \* "driver": one run of TestSetDirectory
  heap,     \* the value graph
  op,       \* the top-level call in progress, "idle" when none
  arg,      \* its string argument (path, want or dir)
  opts,     \* its fields (include and exclude sets)
  seen,     \* its set of visited pointers
  stack,    \* its call stack of walker frames
  visits,   \* the non-nil values the walker of the call was entered on
  calls,    \* the capability invocations it made, in order
  errors,   \* the test's reported errors, in order (fakeT.errors)
  done,     \* the top-level calls completed so far
  prev,     \* the graph when the current or last call started
  status,   \* "ok", "failed" (t.FailNow), "overflow" (stack exhausted),
            \* "panic" (structField panicked)
  tpc,      \* the driver's position in TestSetDirectory
  want,     \* the driver's expected graph
  fail,     \* what fails in the driver: "none", "abs", "load1", "load2"
  fatalEq   \* whether the injected assertEqual fails fatally

vars ==
  << input, options, pending, mode, heap, op, arg, opts, seen, stack, visits, calls,
     errors, done, prev, status, tpc, want, fail, fatalEq >>

\* ---------------------------------------------------------------- frames
\* One activation of a walker: the value c, where it is in its body, the
\* next child i, the result ok so far, the path, and a map's key order.
Frame(c, path) ==
  [c |-> c, pc |-> "enter", i |-> 1, ok |-> TRUE, path |-> path, ord |-> <<>>]

Top == stack[Len(stack)]

\* What one step of a walker decides: to return, to call itself on a child,
\* or to go on in its body; with the graph, visited set and reports it
\* leaves.
Ret(h, sn, ok, es, cs) ==
  [kind |-> "ret", f |-> Frame(0, <<>>), child |-> 0, cpath |-> <<>>, heap |-> h,
   seen |-> sn, ok |-> ok, errs |-> es, calls |-> cs]

Push(f, child, cpath, h, sn, cs) ==
  [kind |-> "push", f |-> f, child |-> child, cpath |-> cpath, heap |-> h,
   seen |-> sn, ok |-> TRUE, errs |-> <<>>, calls |-> cs]

Go(f, h, sn, es, cs) ==
  [kind |-> "go", f |-> f, child |-> 0, cpath |-> <<>>, heap |-> h,
   seen |-> sn, ok |-> TRUE, errs |-> es, calls |-> cs]

\* val.MapKeys(): the keys in an unspecified order.
Perms(n) == { p \in [1..n -> 1..n] : \A i, j \in 1..n : p[i] = p[j] => i = j }

MapOrders(c) == IF c.k = "map" /\ ~c.nil THEN Perms(Len(c.keys)) ELSE {<<>>}

\* The i-th value a map walk visits: key and value of each entry in turn.
MapChild(c, ord, i) ==
  IF i % 2 = 1 THEN c.keys[ord[(i + 1) \div 2]] ELSE c.elems[ord[i \div 2]]

\* ---------------------------------------------------------------- fields
\* CanSet if the fields that are not exported could be set as well.
CanSetAddr(h, vf, tf) == h[vf].addr

\* vf.CanSet(): the field is addressable and exported.
CanSet(h, vf, tf) == h[vf].addr /\ tf.exp

\* tf.Type == stringTyp and tf.Type == stringSliceTyp.
IsStringTyp(c) == c.k = "string" /\ c.t = "string"

IsStringSliceTyp(c) == c.k = "slice" /\ c.t = "[]string"

\* SkipField when an exclusion does not make the walkers skip the field.
SkipFieldUnsettable(h, o, t, vf, tf) == ~CanSet(h, vf, tf)

\* The walkers skip the field: it is unexported or excluded.
SkipField(h, o, t, vf, tf) ==
  ~CanSet(h, vf, tf) \/ FieldKey(t, tf.name) \in o.exclude

\* The first case of the field switch: a string field that looks like a file.
IsFile(h, o, t, vf, tf) ==
  IsStringTyp(h[vf]) /\
    (HasSuffix(tf.name, "File") \/ FieldKey(t, tf.name) \in o.include)

\* The second case: a []string field that looks like files.
IsFiles(h, o, t, vf, tf) ==
  IsStringSliceTyp(h[vf]) /\
    (HasSuffix(tf.name, "Files") \/ FieldKey(t, tf.name) \in o.include)

\* The key of a pointer in the visited set: val.Interface().
SeenKey(c) == <<c.t, c.ref>>

\* ---------------------------------------------------------------- setFile
\* ClearSibling comparing the type of the sibling with the string type.
ClearSiblingPlain(h, c, name) ==
  LET i == FieldByName(h[c].t, TrimSuffix(name, "File"))
  IN IF i # 0 /\ IsStringTyp(h[h[c].elems[i]])
       THEN [h EXCEPT ![h[c].elems[i]].s = Empty]
       ELSE h

\* sf := val.FieldByName(strings.TrimSuffix(tf.Name, "File")); the sibling
\* is cleared when it exists and its kind is String.
ClearSibling(h, c, name) ==
  LET i == FieldByName(h[c].t, TrimSuffix(name, "File"))
  IN IF i # 0 /\ h[h[c].elems[i]].k = "string"
       THEN [h EXCEPT ![h[c].elems[i]].s = Empty]
       ELSE h

\* vf.SetString(file)
SetString(h, vf, file) == [h EXCEPT ![vf].s = file]

\* SetStrings appending to the slice instead of replacing it.
SetStringsAppend(h, vf, file) == [h EXCEPT ![vf].sv = Append(@, file)]

\* vf.Set(reflect.ValueOf([]string{file}))
SetStrings(h, vf, file) == [h EXCEPT ![vf].sv = <<file>>]

\* setFileField leaving alone a file field that already holds file.
setFileFieldSkipSet(h, f, sn, o, file) ==
  LET v == h[f.c]
      vf == v.elems[f.i]
      tf == StructFields(v.t)[f.i]
      f2 == [f EXCEPT !.i = @ + 1]
  IN IF SkipField(h, o, v.t, vf, tf) THEN Go(f2, h, sn, <<>>, <<>>)
     ELSE IF IsFile(h, o, v.t, vf, tf)
       THEN IF h[vf].s = file THEN Go(f2, h, sn, <<>>, <<>>)
            ELSE Go(f2, SetString(ClearSibling(h, f.c, tf.name), vf, file), sn, <<>>, <<>>)
     ELSE IF IsFiles(h, o, v.t, vf, tf)
       THEN Go(f2, SetStrings(h, vf, file), sn, <<>>, <<>>)
     ELSE Push(f2, vf, <<>>, h, sn, <<>>)

\* One iteration of the loop over the fields of the struct in frame f.
setFileField(h, f, sn, o, file) ==
  LET v == h[f.c]
      vf == v.elems[f.i]
      tf == StructFields(v.t)[f.i]
      f2 == [f EXCEPT !.i = @ + 1]
  IN IF SkipField(h, o, v.t, vf, tf) THEN Go(f2, h, sn, <<>>, <<>>)
     ELSE IF IsFile(h, o, v.t, vf, tf)
       THEN Go(f2, SetString(ClearSibling(h, f.c, tf.name), vf, file), sn, <<>>, <<>>)
     ELSE IF IsFiles(h, o, v.t, vf, tf)
       THEN Go(f2, SetStrings(h, vf, file), sn, <<>>, <<>>)
     ELSE Push(f2, vf, <<>>, h, sn, <<>>)

\* PtrCase without seen[key] = true.
PtrCaseNoMark(h, f, sn, cpath, cs) ==
  IF SeenKey(h[f.c]) \notin sn
    THEN Push([f EXCEPT !.pc = "ret"], h[f.c].ref, cpath, h, sn, cs)
    ELSE Ret(h, sn, TRUE, <<>>, cs)

\* The pointer case of the three walkers: descend once per pointer.
PtrCase(h, f, sn, cpath, cs) ==
  IF SeenKey(h[f.c]) \notin sn
    THEN Push([f EXCEPT !.pc = "ret"], h[f.c].ref, cpath, h,
              sn \cup {SeenKey(h[f.c])}, cs)
    ELSE Ret(h, sn, TRUE, <<>>, cs)

\* One step of setFile(val, file, seen, opts) in frame f.
setFile(h, f, sn, o, file, ord) ==
  LET v == h[f.c]
      f2 == [f EXCEPT !.i = @ + 1]
  IN IF f.pc = "ret" THEN Ret(h, sn, f.ok, <<>>, <<>>)
     ELSE IF f.pc = "enter" THEN
       IF isNil(v) THEN Ret(h, sn, TRUE, <<>>, <<>>)
       ELSE CASE v.k = "ptr" -> PtrCase(h, f, sn, <<>>, <<>>)
              [] v.k = "struct" -> Go([f EXCEPT !.pc = "loop"], h, sn, <<>>, <<>>)
              [] v.k = "map" -> Go([f EXCEPT !.pc = "loop", !.ord = ord], h, sn, <<>>, <<>>)
              [] v.k = "slice" -> Go([f EXCEPT !.pc = "loop"], h, sn, <<>>, <<>>)
              [] v.k = "iface" -> Push([f EXCEPT !.pc = "ret"], v.ref, <<>>, h, sn, <<>>)
              [] OTHER -> Ret(h, sn, TRUE, <<>>, <<>>)
     ELSE CASE v.k = "struct" ->
                 IF f.i > Len(v.elems) THEN Ret(h, sn, f.ok, <<>>, <<>>)
                 ELSE setFileField(h, f, sn, o, file)
            [] v.k = "map" ->
                 IF f.i > 2 * Len(v.keys) THEN Ret(h, sn, f.ok, <<>>, <<>>)
                 ELSE Push(f2, MapChild(v, f.ord, f.i), <<>>, h, sn, <<>>)
            [] OTHER ->
                 \* the elements of a []string are strings: nothing to do
                 IF f.i > Len(v.elems) THEN Ret(h, sn, f.ok, <<>>, <<>>)
                 ELSE Push(f2, v.elems[f.i], <<>>, h, sn, <<>>)

\* ---------------------------------------------------------------- assertFile
\* The type %v prints for the value in cell c.
TypeName(c) == IF c.k = "ptr" THEN <<"*", c.t>> ELSE <<c.t>>

\* ifaceType(val): the type of the value, inside any interfaces.
RECURSIVE ifaceType(_, _)
ifaceType(h, c) ==
  IF h[c].k = "iface" /\ h[c].ref # 0 THEN ifaceType(h, h[c].ref)
  ELSE TypeName(h[c])

\* %v of a map key: a string prints as itself.
KeyString(h, c) == IF h[c].k = "string" THEN h[c].s ELSE <<"&{">> \o TypeName(h[c]) \o <<"}">>

\* t.Errorf("%s... = %q; want: %q", path, got, want); cell and idx name the
\* field cell and element the message is about (idx -1: the field itself).
Mismatch(path, got, wnt, cell, idx) ==
  [kind |-> "mismatch", path |-> path, got |-> got, want |-> wnt,
   cell |-> cell, idx |-> idx]

\* FilesMismatches stopping at the first element that differs.
FilesMismatchesFirst(path, sv, wnt, vf) ==
  LET bad == { j \in 1..Len(sv) : sv[j] # wnt }
      j == CHOOSE k \in bad : \A l \in bad : k <= l
  IN IF bad = {} THEN <<>>
     ELSE << Mismatch(path \o <<"[", ToString(j - 1), "]">>, sv[j], wnt, vf, j - 1) >>

\* The messages of the loop over the elements of a files field.
FilesMismatches(path, sv, wnt, vf) ==
  SelectSeq([j \in 1..Len(sv) |->
               Mismatch(path \o <<"[", ToString(j - 1), "]">>, sv[j], wnt, vf, j - 1)],
            LAMBDA e : e.got # wnt)

\* One iteration of the loop over the fields of the struct in frame f.
assertFileField(h, f, sn, o, wnt) ==
  LET v == h[f.c]
      vf == v.elems[f.i]
      tf == StructFields(v.t)[f.i]
      f2 == [f EXCEPT !.i = @ + 1]
      fpath == f.path \o <<".">> \o tf.name
  IN IF SkipField(h, o, v.t, vf, tf) THEN Go(f2, h, sn, <<>>, <<>>)
     ELSE IF IsFile(h, o, v.t, vf, tf)
       THEN IF h[vf].s # wnt
              THEN Go([f2 EXCEPT !.ok = FALSE], h, sn,
                      << Mismatch(fpath, h[vf].s, wnt, vf, -1) >>, <<>>)
              ELSE Go(f2, h, sn, <<>>, <<>>)
     ELSE IF IsFiles(h, o, v.t, vf, tf)
       THEN LET es == FilesMismatches(fpath, h[vf].sv, wnt, vf)
            IN Go([f2 EXCEPT !.ok = @ /\ es = <<>>], h, sn, es, <<>>)
     ELSE Push(f2, vf, fpath, h, sn, <<>>)

\* One step of assertFile(t, path, val, want, seen, opts) in frame f.
assertFile(h, f, sn, o, wnt, ord) ==
  LET v == h[f.c]
      f2 == [f EXCEPT !.i = @ + 1]
  IN IF f.pc = "ret" THEN Ret(h, sn, f.ok, <<>>, <<>>)
     ELSE IF f.pc = "enter" THEN
       IF isNil(v) THEN Ret(h, sn, TRUE, <<>>, <<>>)
       ELSE CASE v.k = "ptr" -> PtrCase(h, f, sn, f.path, <<>>)
              [] v.k = "struct" -> Go([f EXCEPT !.pc = "loop"], h, sn, <<>>, <<>>)
              [] v.k = "map" -> Go([f EXCEPT !.pc = "loop", !.ord = ord], h, sn, <<>>, <<>>)
              [] v.k = "slice" -> Go([f EXCEPT !.pc = "loop"], h, sn, <<>>, <<>>)
              [] v.k = "iface" ->
                   Push([f EXCEPT !.pc = "ret"], v.ref,
                        f.path \o <<".(">> \o ifaceType(h, f.c) \o <<")">>, h, sn, <<>>)
              [] OTHER -> Ret(h, sn, TRUE, <<>>, <<>>)
     ELSE CASE v.k = "struct" ->
                 IF f.i > Len(v.elems) THEN Ret(h, sn, f.ok, <<>>, <<>>)
                 ELSE assertFileField(h, f, sn, o, wnt)
            [] v.k = "map" ->
                 IF f.i > 2 * Len(v.keys) THEN Ret(h, sn, f.ok, <<>>, <<>>)
                 ELSE LET kc == v.keys[f.ord[(f.i + 1) \div 2]]
                      IN Push(f2, MapChild(v, f.ord, f.i),
                              IF f.i % 2 = 1
                                THEN <<"(">> \o ifaceType(h, kc) \o <<")">>
                                ELSE f.path \o <<"[">> \o KeyString(h, kc) \o <<"]">>,
                              h, sn, <<>>)
            [] OTHER ->
                 IF f.i > Len(v.elems) THEN Ret(h, sn, f.ok, <<>>, <<>>)
                 ELSE Push(f2, v.elems[f.i],
                           f.path \o <<"[", ToString(f.i - 1), "]">>, h, sn, <<>>)

\* ---------------------------------------------------------------- capability
Disabled(h, c, i) == h[h[c].elems[i]].s # Empty

JoinField(h, c, i, dir) == [h EXCEPT ![h[c].elems[i]].s = JoinDir(dir, @)]

JoinFields(h, c, i, dir) ==
  [h EXCEPT ![h[c].elems[i]].sv = [j \in DOMAIN @ |-> JoinDir(dir, @[j])]]

\* The SetDirectory methods of the test types, called on receiver c of
\* type t (for a pointer receiver c is the struct pointed to, 0 when the
\* pointer is nil).  A root is always built with a Child.
RECURSIVE Cap(_, _, _, _), CapIface(_, _, _), CapEach(_, _, _)
Cap(h, t, c, dir) ==
  CASE t = "configtest.root" ->
         LET e == h[c].elems
             h1 == CapIface(h, e[1], dir)
             h2 == Cap(h1, "configtest.cyclic", h1[e[2]].ref, dir)
             h3 == Cap(h2, "configtest.setterMap", e[3], dir)
             h4 == Cap(h3, "configtest.setterSlice", e[4], dir)
         IN JoinField(h4, c, 5, dir)
    [] t = "configtest.cyclic" ->
         IF c = 0 THEN h ELSE JoinField(h, c, 2, dir)
    [] t \in {"configtest.setterMap", "configtest.setterSlice"} ->
         CapEach(h, h[c].elems, dir)
    [] t = "configtest.inner" ->
         IF c = 0 \/ Disabled(h, c, 2) \/ h[h[c].elems[1]].ref = 0 THEN h
         ELSE CapIface(h, h[c].elems[1], dir)
    [] t = "configtest.fooSetter" ->
         IF c = 0 \/ Disabled(h, c, 4) THEN h ELSE JoinField(h, c, 2, dir)
    [] t = "configtest.barSetter" ->
         IF c = 0 \/ Disabled(h, c, 3) THEN h ELSE JoinFields(h, c, 1, dir)
    [] t = "configtest.includeFile" ->
         IF c = 0 \/ Disabled(h, c, 2) THEN h ELSE JoinField(h, c, 1, dir)
    [] t = "configtest.includeFiles" ->
         IF c = 0 \/ Disabled(h, c, 2) THEN h ELSE JoinFields(h, c, 1, dir)
    [] OTHER -> h

\* c.SetDirectory(dir) on the value held by interface cell i.
CapIface(h, i, dir) ==
  LET p == h[i].ref
  IN IF h[p].k = "ptr" THEN Cap(h, h[p].t, h[p].ref, dir)
     ELSE Cap(h, h[p].t, p, dir)

\* for _, c := range v { if c != nil { c.SetDirectory(dir) } }
CapEach(h, es, dir) ==
  IF es = <<>> THEN h
  ELSE CapEach(IF h[Head(es)].ref = 0 THEN h ELSE CapIface(h, Head(es), dir),
               Tail(es), dir)

\* ---------------------------------------------------------------- setDirectory
\* One invocation of the capability by the walker: the receiver and its type.
Call(recv, t) == [recv |-> recv, t |-> t]

\* Setter without v = val.Addr(): only the value itself is asked.
SetterNoAddr(h, c) ==
  LET v == h[c]
  IN IF v.k = "ptr" THEN
       IF MethodRecv(v.t) # "none" THEN << Call(v.ref, v.t) >> ELSE <<>>
     ELSE IF v.k = "iface" THEN
       LET p == h[v.ref]
       IN IF p.k = "ptr"
            THEN IF MethodRecv(p.t) # "none" THEN << Call(p.ref, p.t) >> ELSE <<>>
            ELSE IF MethodRecv(p.t) = "val" THEN << Call(v.ref, p.t) >> ELSE <<>>
     ELSE IF MethodRecv(v.t) = "val" THEN << Call(c, v.t) >> ELSE <<>>

\* v.Interface().(config.DirectorySetter): the invocation made for the value
\* in cell c, if it or its address implements the capability.
Setter(h, c) ==
  LET v == h[c]
  IN IF v.k # "ptr" /\ v.addr THEN
       \* v = val.Addr(): a *T has the methods of T and of *T
       IF MethodRecv(v.t) # "none" THEN << Call(c, v.t) >> ELSE <<>>
     ELSE IF v.k = "ptr" THEN
       IF MethodRecv(v.t) # "none" THEN << Call(v.ref, v.t) >> ELSE <<>>
     ELSE IF v.k = "iface" THEN
       \* Interface() of an interface value is the value it holds
       LET p == h[v.ref]
       IN IF p.k = "ptr"
            THEN IF MethodRecv(p.t) # "none" THEN << Call(p.ref, p.t) >> ELSE <<>>
            ELSE IF MethodRecv(p.t) = "val" THEN << Call(v.ref, p.t) >> ELSE <<>>
     ELSE IF MethodRecv(v.t) = "val" THEN << Call(c, v.t) >> ELSE <<>>

\* The graph after the invocations cs.
Invoke(h, cs, dir) ==
  IF cs = <<>> THEN h ELSE Cap(h, cs[1].t, cs[1].recv, dir)

\* One step of setDirectory(val, dir, seen) in frame f.
setDirectory(h, f, sn, dir, ord) ==
  LET v == h[f.c]
      f2 == [f EXCEPT !.i = @ + 1]
      cs == Setter(h, f.c)
      h1 == Invoke(h, cs, dir)
  IN IF f.pc = "ret" THEN Ret(h, sn, f.ok, <<>>, <<>>)
     ELSE IF f.pc = "enter" THEN
       IF isNil(v) THEN Ret(h, sn, TRUE, <<>>, <<>>)
       ELSE CASE v.k = "ptr" -> PtrCase(h1, f, sn, <<>>, cs)
              [] v.k = "struct" -> Go([f EXCEPT !.pc = "loop"], h1, sn, <<>>, cs)
              [] v.k = "map" -> Go([f EXCEPT !.pc = "loop", !.ord = ord], h1, sn, <<>>, cs)
              [] v.k = "slice" -> Go([f EXCEPT !.pc = "loop"], h1, sn, <<>>, cs)
              [] v.k = "iface" -> Push([f EXCEPT !.pc = "ret"], v.ref, <<>>, h1, sn, cs)
              [] OTHER -> Ret(h1, sn, TRUE, <<>>, cs)
     ELSE CASE v.k = "struct" ->
                 IF f.i > Len(v.elems) THEN Ret(h, sn, f.ok, <<>>, <<>>)
                 ELSE IF ~CanSet(h, v.elems[f.i], StructFields(v.t)[f.i])
                   THEN Go(f2, h, sn, <<>>, <<>>)
                 ELSE Push(f2, v.elems[f.i], <<>>, h, sn, <<>>)
            [] v.k = "map" ->
                 IF f.i > 2 * Len(v.keys) THEN Ret(h, sn, f.ok, <<>>, <<>>)
                 ELSE Push(f2, MapChild(v, f.ord, f.i), <<>>, h, sn, <<>>)
            [] OTHER ->
                 IF f.i > Len(v.elems) THEN Ret(h, sn, f.ok, <<>>, <<>>)
                 ELSE Push(f2, v.elems[f.i], <<>>, h, sn, <<>>)

\* ---------------------------------------------------------------- calls
\* The graphs whose types are all types of the tests.
DriverInputs ==
  { in \in Inputs : in.g \in { "foo", "bar", "includeFile", "includeFiles",
                               "excludeFile", "inner", "cyclic", "chain", "root",
                               "slice", "map", "shared", "typednil" } }

Init ==
  /\ mode \in {"client", "driver"}
  /\ input \in IF mode = "client" THEN Inputs ELSE DriverInputs
  /\ options = <<>>
  /\ pending \in OptionLists(input)
  /\ fail \in IF mode = "client" THEN {"none"} ELSE {"none", "abs", "load1", "load2"}
  /\ fatalEq \in IF mode = "client" THEN {FALSE} ELSE BOOLEAN
  /\ heap = IF mode = "client" THEN Graph(input) ELSE <<>>
  /\ op = "idle"
  /\ arg = Empty
  /\ opts = NoFields
  /\ seen = {}
  /\ stack = <<>>
  /\ visits = <<>>
  /\ calls = <<>>
  /\ errors = <<>>
  /\ done = <<>>
  /\ prev = <<>>
  /\ status = "ok"
  /\ tpc = "start"
  /\ want = <<>>

\* The start of a top-level call on graph h: fresh fields and visited set,
\* and the walker called on reflect.ValueOf(config).
Start(name, a, o, path, h) ==
  /\ op' = name
  /\ arg' = a
  /\ opts' = o
  /\ seen' = {}
  /\ stack' = << Frame(1, path) >>
  /\ visits' = <<>>
  /\ calls' = <<>>
  /\ prev' = h
  /\ heap' = h

StartSetFile(a, h) ==
  Start("SetFile", a, ApplyOptions(NoFields, options), <<>>, h)

StartAssertFile(a, h) ==
  Start("AssertFile", a, ApplyOptions(NoFields, options),
        <<"(">> \o ifaceType(h, 1) \o <<")">>, h)

StartSetDirectory(a, h) == Start("SetDirectory", a, NoFields, <<>>, h)

\* The caller builds its next option before the call it is handed to:
\* structField panics on a sample that is no struct or has no such field,
\* and the caller goes no further.
BuildOption(fn) ==
  /\ op = "idle" /\ status = "ok" /\ done = <<>> /\ tpc = "start"
  /\ pending' = Tail(pending)
  /\ IF fn.key.err # ""
       THEN /\ status' = "panic"
            /\ UNCHANGED options
       ELSE /\ options' = Append(options, fn)
            /\ UNCHANGED status
  /\ UNCHANGED << input, mode, heap, op, arg, opts, seen, stack, visits, calls,
                  errors, done, prev, tpc, want, fail, fatalEq >>

\* IncludeField(strukt, name)
NewIncludeField ==
  /\ pending # <<>> /\ Head(pending).kind = "include"
  /\ BuildOption(IncludeField(Head(pending).strukt, Head(pending).name))

\* ExcludeField(strukt, name)
NewExcludeField ==
  /\ pending # <<>> /\ Head(pending).kind = "exclude"
  /\ BuildOption(ExcludeField(Head(pending).strukt, Head(pending).name))

ClientCanCall ==
  /\ mode = "client"
  /\ pending = <<>>
  /\ op = "idle"
  /\ status = "ok"
  /\ Len(done) < MaxCalls

\* SetFile(config, path, options...)
SetFile ==
  /\ ClientCanCall
  /\ StartSetFile(relPath, heap)
  /\ UNCHANGED << input, options, pending, mode, errors, done, status, tpc, want, fail, fatalEq >>

\* AssertFile(t, config, path, options...)
AssertFile ==
  /\ ClientCanCall
  /\ StartAssertFile(absPath, heap)
  /\ UNCHANGED << input, options, pending, mode, errors, done, status, tpc, want, fail, fatalEq >>

\* SetDirectory(config, dir)
SetDirectory ==
  /\ ClientCanCall
  /\ StartSetDirectory(dirPath, heap)
  /\ UNCHANGED << input, options, pending, mode, errors, done, status, tpc, want, fail, fatalEq >>

\* The effect of the step decided as d: the frame goes on, calls the walker
\* on a child, or returns its result to its caller; the outermost return
\* ends the call, and AssertFile then fails the test unless all was ok.
Apply(d) ==
  LET n == Len(stack)
  IN /\ heap' = d.heap
     /\ seen' = d.seen
     /\ errors' = errors \o d.errs
     /\ calls' = calls \o d.calls
     /\ visits' = IF Top.pc = "enter" /\ ~isNil(heap[Top.c])
                    THEN Append(visits, Top.c) ELSE visits
     /\ CASE d.kind = "go" ->
               /\ stack' = [stack EXCEPT ![n] = d.f]
               /\ UNCHANGED << op, done, status >>
          [] d.kind = "push" ->
               IF n < MaxDepth
                 THEN /\ stack' = Append([stack EXCEPT ![n] = d.f], Frame(d.child, d.cpath))
                      /\ UNCHANGED << op, done, status >>
                 ELSE /\ status' = "overflow"
                      /\ UNCHANGED << stack, op, done >>
          [] OTHER ->
               IF n > 1
                 THEN /\ stack' = [SubSeq(stack, 1, n - 1) EXCEPT ![n - 1].ok = @ /\ d.ok]
                      /\ UNCHANGED << op, done, status >>
                 ELSE /\ stack' = <<>>
                      /\ op' = "idle"
                      /\ done' = Append(done, op)
                      /\ status' = IF op = "AssertFile" /\ ~d.ok THEN "failed" ELSE status
     /\ UNCHANGED << input, options, pending, mode, arg, opts, prev, tpc, want, fail, fatalEq >>

Running(name) == op = name /\ status = "ok" /\ stack # <<>>

Orders == IF Top.pc = "enter" THEN MapOrders(heap[Top.c]) ELSE {<<>>}

RunSetFile ==
  /\ Running("SetFile")
  /\ \E ord \in Orders :
       \E d \in { setFile(heap, Top, seen, opts, arg, ord) } : Apply(d)

RunAssertFile ==
  /\ Running("AssertFile")
  /\ \E ord \in Orders :
       \E d \in { assertFile(heap, Top, seen, opts, arg, ord) } : Apply(d)

RunSetDirectory ==
  /\ Running("SetDirectory")
  /\ \E ord \in Orders :
       \E d \in { setDirectory(heap, Top, seen, arg, ord) } : Apply(d)

\* ---------------------------------------------------------------- driver
\* filepath.Abs, filepath.Dir and filepath.Base of the driver's file.
Abs(file) == IF file # Empty /\ Head(file) = "/" THEN file ELSE dirPath \o file

Dir(file) == SubSeq(file, 1, Len(file) - 1)

Base(file) == << file[Len(file)] >>

\* The file the driver is called with.
ConfigFile == relPath

\* t.Fatalf(...): the error is recorded and the test stops.
Fatalf(kind, file) ==
  /\ errors' = Append(errors, [kind |-> kind, path |-> file, got |-> Empty,
                               want |-> Empty, cell |-> 0, idx |-> -1])
  /\ status' = "failed"

\* assertEq of the tests: cmp.Diff(want, got) is empty.
Equal(w, g) == \A c \in Reach(w) : w[c] = g[c]

\* got.SetDirectory(dir): the capability called on the root itself.
SetDirectoryOn(h, dir) ==
  IF h[1].k = "ptr" THEN Cap(h, h[1].t, h[1].ref, dir) ELSE Cap(h, h[1].t, 1, dir)

\* TestSetDirectory up to SetFile(want, base, options...).
TestLoadWant ==
  /\ mode = "driver" /\ tpc = "start" /\ status = "ok" /\ pending = <<>>
  /\ IF fail \in {"abs", "load1"}
       THEN /\ Fatalf(fail, Abs(ConfigFile))
            /\ UNCHANGED << heap, op, arg, opts, seen, stack, visits, calls, prev, tpc >>
       ELSE /\ StartSetFile(Base(Abs(ConfigFile)), Graph(input))
            /\ tpc' = "setdir"
            /\ UNCHANGED << errors, status >>
  /\ UNCHANGED << input, options, pending, mode, done, want, fail, fatalEq >>

\* SetDirectory(want, dir)
TestSetWant ==
  /\ mode = "driver" /\ tpc = "setdir" /\ status = "ok" /\ op = "idle"
  /\ StartSetDirectory(Dir(Abs(ConfigFile)), heap)
  /\ tpc' = "load"
  /\ UNCHANGED << input, options, pending, mode, errors, done, status, want, fail, fatalEq >>

\* TestLoadGot reporting the load error with t.Errorf and going on.
TestLoadGotErrorf ==
  /\ mode = "driver" /\ tpc = "load" /\ status = "ok" /\ op = "idle"
  /\ want' = heap
  /\ errors' = IF fail = "load2"
                 THEN Append(errors, [kind |-> fail, path |-> Abs(ConfigFile),
                                      got |-> Empty, want |-> Empty, cell |-> 0,
                                      idx |-> -1])
                 ELSE errors
  /\ StartSetFile(Base(Abs(ConfigFile)), Graph(input))
  /\ tpc' = "cap"
  /\ UNCHANGED << input, options, pending, mode, done, fail, fatalEq, status >>

\* got, err := load(file) up to SetFile(got, base, options...).
TestLoadGot ==
  /\ mode = "driver" /\ tpc = "load" /\ status = "ok" /\ op = "idle"
  /\ want' = heap
  /\ IF fail = "load2"
       THEN /\ Fatalf(fail, Abs(ConfigFile))
            /\ UNCHANGED << heap, op, arg, opts, seen, stack, visits, calls, prev, tpc >>
       ELSE /\ StartSetFile(Base(Abs(ConfigFile)), Graph(input))
            /\ tpc' = "cap"
            /\ UNCHANGED << errors, status >>
  /\ UNCHANGED << input, options, pending, mode, done, fail, fatalEq >>

\* got.SetDirectory(dir)
TestSetGot ==
  /\ mode = "driver" /\ tpc = "cap" /\ status = "ok" /\ op = "idle"
  /\ heap' = SetDirectoryOn(heap, Dir(Abs(ConfigFile)))
  /\ tpc' = "equal"
  /\ UNCHANGED << input, options, pending, mode, op, arg, opts, seen, stack, visits, calls,
                  errors, done, prev, status, want, fail, fatalEq >>

\* TestEqual returning from the driver when the graphs differ.
TestEqualStop ==
  /\ mode = "driver" /\ tpc = "equal" /\ status = "ok"
  /\ IF Equal(want, heap)
       THEN UNCHANGED << errors, status >>
       ELSE /\ errors' = Append(errors, [kind |-> "diff", path |-> Empty, got |-> Empty,
                                         want |-> Empty, cell |-> 0, idx |-> -1])
            /\ status' = "failed"
  /\ tpc' = "assert"
  /\ UNCHANGED << input, options, pending, mode, heap, op, arg, opts, seen, stack, visits,
                  calls, done, prev, want, fail, fatalEq >>

\* assertEqual(t, want, got)
TestEqual ==
  /\ mode = "driver" /\ tpc = "equal" /\ status = "ok"
  /\ IF Equal(want, heap)
       THEN UNCHANGED << errors, status >>
       ELSE /\ errors' = Append(errors, [kind |-> "diff", path |-> Empty, got |-> Empty,
                                         want |-> Empty, cell |-> 0, idx |-> -1])
            /\ status' = IF fatalEq THEN "failed" ELSE status
  /\ tpc' = "assert"
  /\ UNCHANGED << input, options, pending, mode, heap, op, arg, opts, seen, stack, visits,
                  calls, done, prev, want, fail, fatalEq >>

\* AssertFile(t, got, file, options...)
TestAssert ==
  /\ mode = "driver" /\ tpc = "assert" /\ status = "ok"
  /\ StartAssertFile(Abs(ConfigFile), heap)
  /\ tpc' = "end"
  /\ UNCHANGED << input, options, pending, mode, errors, done, status, want, fail, fatalEq >>

Next ==
  \/ NewIncludeField
  \/ NewExcludeField
  \/ SetFile
  \/ AssertFile
  \/ SetDirectory
  \/ RunSetFile
  \/ RunAssertFile
  \/ RunSetDirectory
  \/ TestLoadWant
  \/ TestSetWant
  \/ TestLoadGot
  \/ TestSetGot
  \/ TestEqual
  \/ TestAssert

Spec == Init /\ [][Next]_vars

TypeOK ==
  /\ WellFormed(Graph(input))
  /\ Len(stack) <= MaxDepth
  /\ heap # <<>> => DOMAIN heap = DOMAIN Graph(input)

\* ---------------------------------------------------------------- termination
\* The graphs with a record that a pointer leads back to (the large root
\* graph holds the same cycle as the cyclic graph and is left to Spec).
InitCyclic ==
  /\ Init
  /\ \E c \in DOMAIN Graph(input) :
       /\ Graph(input)[c].k = "struct"
       /\ \E q \in Closure(Graph(input), Children(Graph(input)[c])) :
            Graph(input)[q].k = "ptr" /\ Graph(input)[q].ref = c
  /\ input.g # "root"

\* The calls run to their end: a call in progress takes its next step.
CyclicSpec ==
  InitCyclic /\ [][Next]_vars /\ WF_vars(RunSetFile) /\ WF_vars(RunAssertFile)
    /\ WF_vars(RunSetDirectory)

\* ---------------------------------------------------------------- terms
\* How often the walker of the call was entered on the value in cell c:
\* for a struct, how often its fields were processed.
Count(c) == Cardinality({ i \in DOMAIN visits : visits[i] = c })

\* How often the capability was invoked on receiver c in the call.
Invocations(c) == Cardinality({ i \in DOMAIN calls : calls[i].recv = c })

\* The last top-level call was name and has returned.
Returned(name) ==
  op = "idle" /\ status = "ok" /\ done # <<>> /\ done[Len(done)] = name

\* The records a pointer leads back to: the record is reachable from its
\* own fields through a pointer to it.
SelfRefs(h) ==
  { c \in DOMAIN h :
      h[c].k = "struct" /\
      \E q \in Closure(h, Children(h[c])) : h[q].k = "ptr" /\ h[q].ref = c }

\* The record in cell c is held by value: it is a field, element or
\* payload of another cell.
ByValue(h, c) ==
  \E x \in DOMAIN h : h[x].k # "ptr" /\ c \in Children(h[x])

\* Whether the walker of the call came to a pointer to record c: 1 or 0.
PtrMet(h, c) ==
  IF \E i \in DOMAIN visits : h[visits[i]].k = "ptr" /\ h[visits[i]].ref = c
    THEN 1 ELSE 0

\* The values that hold record c by value and from which the walker of the
\* call steps to it: an interface, map or slice holding it, and a record
\* holding it in a field that can be set and is not excluded.
Holders(h, o, c) ==
  { p \in DOMAIN h :
      /\ h[p].k # "ptr" /\ c \in Children(h[p])
      /\ h[p].k = "struct" =>
           \E i \in DOMAIN h[p].elems :
             /\ h[p].elems[i] = c
             /\ ~SkipField(h, o, h[p].t, c, StructFields(h[p].t)[i]) }

RECURSIVE SumCount(_)
SumCount(ps) ==
  IF ps = {} THEN 0
  ELSE LET p == CHOOSE q \in ps : TRUE
       IN Count(p) + SumCount(ps \ {p})

\* How often the fields of record c were processed: once if c is the root,
\* once through its pointers, however many are met and however often, and
\* once each time a value holding it by value is processed.
Accounted(h, o, c) ==
  Count(c) =
    (IF c = 1 THEN 1 ELSE 0) + PtrMet(h, c) + SumCount(Holders(h, o, c))

\* C1 as claimed: after any of the three calls on a graph with a record
\* whose pointer leads back to it, that record's fields were processed
\* exactly once.
C1_ExactlyOnce ==
  (op = "idle" /\ status = "ok" /\ done # <<>>) =>
    \A c \in SelfRefs(heap) : Count(c) = 1

\* C1 amended: each call on such a graph terminates, and the record's
\* fields are processed exactly once through its pointers, which is exactly
\* once in all when the record is reached through pointers only; a record
\* that is also held by value is processed once more each time the value
\* holding it is processed.
C1_Terminates ==
  /\ [](SelfRefs(Graph(input)) # {} => status # "overflow")
  /\ []((op = "idle" /\ status = "ok" /\ done # <<>>) =>
          \A c \in SelfRefs(heap) :
            /\ Accounted(heap, opts, c)
            /\ PtrMet(heap, c) = 1
            /\ ~ByValue(heap, c) => Count(c) = 1)
  /\ ((op # "idle" /\ SelfRefs(Graph(input)) # {}) ~> (op = "idle"))

C1_Witness ==
  /\ Returned("SetDirectory")
  /\ input.g = "chain"
  /\ SelfRefs(heap) = {2, 5}
  /\ Count(2) = 1 /\ Count(5) = 1

\* The records whose pointer type implements the capability: the reference
\* nodes of a graph.
Implementers(h) ==
  { c \in DOMAIN h : h[c].k = "struct" /\ h[c].addr /\ MethodRecv(h[c].t) = "ptr" }

\* How often the walker of the call arrived at record c through a pointer:
\* at a pointer to c, and at an interface value that cannot be addressed and
\* holds a pointer to c.
Arrivals(h, c) ==
  Cardinality({ i \in DOMAIN visits :
                  \/ h[visits[i]].k = "ptr" /\ h[visits[i]].ref = c
                  \/ /\ h[visits[i]].k = "iface" /\ ~h[visits[i]].addr
                     /\ h[h[visits[i]].ref].k = "ptr"
                     /\ h[h[visits[i]].ref].ref = c })

\* C2 as claimed: during one SetDirectory call the walker invokes the
\* capability exactly once on each reference node that implements it and
\* that it reaches.
C2_ExactlyOnce ==
  Returned("SetDirectory") =>
    \A c \in Implementers(heap) : Count(c) > 0 => Invocations(c) = 1

\* C2 amended: the walker invokes the capability at least once on each
\* implementing reference node it reaches, and once per arrival: once each
\* time it comes to a pointer to the node (whether or not the pointer was
\* seen before) and once each time it visits the addressable pointee; a
\* node it never comes to is not invoked.
C2_OncePerArrival ==
  Returned("SetDirectory") =>
    \A c \in Implementers(heap) :
      /\ Invocations(c) = Count(c) + Arrivals(heap, c)
      /\ Count(c) > 0 => Invocations(c) >= 1

\* A record behind one pointer is invoked twice, a pointer shared by two
\* paths three times, a self-referencing pointer three times.
C2_Witness ==
  /\ Returned("SetDirectory")
  /\ \/ input.g = "foo" /\ Invocations(2) = 2
     \/ input.g = "shared" /\ Invocations(6) = 3
     \/ input.g = "cyclic" /\ Invocations(2) = 3

\* ---------------------------------------------------------------- fields of a graph
\* The fields of the records of graph h, as pairs of record cell and
\* position.
FieldsOf(h) ==
  { <<c, i>> \in (DOMAIN h) \X (1..5) : h[c].k = "struct" /\ i \in DOMAIN h[c].elems }

FieldCell(h, x) == h[x[1]].elems[x[2]]

FieldDecl(h, x) == StructFields(h[x[1]].t)[x[2]]

\* The classification rule: a string field named ...File or included, or a
\* []string field named ...Files or included, and not excluded.
FileLike(h, o, x) ==
  /\ IsFile(h, o, h[x[1]].t, FieldCell(h, x), FieldDecl(h, x))
  /\ FieldKey(h[x[1]].t, FieldDecl(h, x).name) \notin o.exclude

FilesLike(h, o, x) ==
  /\ IsFiles(h, o, h[x[1]].t, FieldCell(h, x), FieldDecl(h, x))
  /\ FieldKey(h[x[1]].t, FieldDecl(h, x).name) \notin o.exclude

\* The field is one the walk of SetFile and AssertFile acts on or descends
\* into: it can be set and is not excluded.
Taken(h, o, x) == ~SkipField(h, o, h[x[1]].t, FieldCell(h, x), FieldDecl(h, x))

\* The cells the walk of SetFile and AssertFile comes to: from the root
\* through pointers, elements, keys, values, payloads and taken fields.
RECURSIVE WalkClosure(_, _, _)
WalkClosure(h, o, cs) ==
  LET next(c) == IF h[c].k = "struct"
                   THEN { FieldCell(h, <<c, i>>) :
                            i \in { j \in DOMAIN h[c].elems : Taken(h, o, <<c, j>>) } }
                   ELSE Children(h[c])
      more == cs \cup UNION { next(c) : c \in cs }
  IN IF more = cs THEN cs ELSE WalkClosure(h, o, more)

WalkFields(h, o) ==
  { x \in FieldsOf(h) : x[1] \in WalkClosure(h, o, {1}) /\ Taken(h, o, x) }

\* Field x names the sibling that a file-like field declared after it in the
\* same record clears.
ClearedLater(h, o, x) ==
  \E y \in WalkFields(h, o) :
    /\ y[1] = x[1] /\ y[2] > x[2] /\ FileLike(h, o, y)
    /\ TrimSuffix(FieldDecl(h, y).name, "File") = FieldDecl(h, x).name

\* SetFile has returned and nothing has touched the graph since.
SetFileDone == Returned("SetFile") /\ tpc \in {"start", "setdir", "cap"}

\* C3 as claimed: after SetFile every file-like field reachable from the
\* root that is not excluded holds the constant, a []string field exactly
\* [path], for every graph shape and field order.
C3_EveryReachable ==
  SetFileDone =>
    \A x \in FieldsOf(heap) :
      x[1] \in Reach(heap) =>
        /\ FileLike(heap, opts, x) => heap[FieldCell(heap, x)].s = arg
        /\ FilesLike(heap, opts, x) => heap[FieldCell(heap, x)].sv = <<arg>>

\* C3 amended: after SetFile every file-like field that can be set, is not
\* excluded and belongs to a record the walk comes to (from the root through
\* fields that can be set and are not excluded) holds the constant: a
\* []string field is exactly [path] whatever its previous length, a string
\* field equals path, except a string field X that a file-like field XFile
\* declared after it in the same record names as its sibling, which ends
\* empty.  Each such record was processed.
C3_EveryTaken ==
  SetFileDone =>
    \A x \in WalkFields(heap, opts) :
      /\ Count(x[1]) >= 1
      /\ FileLike(heap, opts, x) =>
           heap[FieldCell(heap, x)].s =
             IF ClearedLater(heap, opts, x) THEN Empty ELSE arg
      /\ FilesLike(heap, opts, x) => heap[FieldCell(heap, x)].sv = <<arg>>

\* A four-element sequence is replaced by the one-element sequence.
C3_Witness ==
  /\ SetFileDone
  /\ input.g = "bar"
  /\ Len(prev[3].sv) = 4
  /\ heap[3].sv = <<arg>>

\* ---------------------------------------------------------------- findings
\* The findings AssertFile reported (the other errors are the driver's).
Findings == SelectSeq(errors, LAMBDA e : e.kind = "mismatch")

\* How many findings name element idx of field cell vf (idx -1: the field).
Reported(vf, idx) ==
  Cardinality({ i \in DOMAIN Findings : Findings[i].cell = vf /\ Findings[i].idx = idx })

\* The only AssertFile call so far has returned.
AssertFileDone ==
  /\ op = "idle" /\ done # <<>> /\ done[Len(done)] = "AssertFile"
  /\ \A i \in 1..(Len(done) - 1) : done[i] # "AssertFile"

\* The values of a field that differ from want: -1 for a string field that
\* differs, the positions of the elements of a []string field that differ.
Differing(h, o, x, wnt) ==
  IF FileLike(h, o, x)
    THEN IF h[FieldCell(h, x)].s # wnt THEN {-1} ELSE {}
  ELSE IF FilesLike(h, o, x)
    THEN { j - 1 : j \in { k \in DOMAIN h[FieldCell(h, x)].sv : h[FieldCell(h, x)].sv[k] # wnt } }
  ELSE {}

\* C4 as claimed: AssertFile records exactly one finding for each reachable,
\* non-excluded file-like field or element that differs from want, no other
\* finding, and fails the test if and only if some such field or element
\* differs.
C4_OnePerReachable ==
  AssertFileDone =>
    /\ \A x \in FieldsOf(heap) : \A idx \in -1..3 :
         Reported(FieldCell(heap, x), idx) =
           IF x[1] \in Reach(heap) /\ idx \in Differing(heap, opts, x, arg) THEN 1 ELSE 0
    /\ status = "failed" <=>
         \E x \in FieldsOf(heap) :
           x[1] \in Reach(heap) /\ Differing(heap, opts, x, arg) # {}

\* C4 amended: AssertFile walks on after a mismatch and records one finding
\* for each differing file-like field or element each time the walk
\* processes its record, for the fields that can be set, are not excluded
\* and belong to a record the walk comes to, and no other finding; a record
\* reached through pointers only is processed once, a record held by value
\* once each time the value holding it is processed and once more if a
\* pointer to it is met.  Each finding carries the value found and want.
\* It fails the test if and only if it recorded a finding.
C4_OnePerProcessing ==
  AssertFileDone =>
    /\ \A x \in FieldsOf(heap) : \A idx \in -1..3 :
         Reported(FieldCell(heap, x), idx) =
           IF x \in WalkFields(heap, opts) /\ idx \in Differing(heap, opts, x, arg)
             THEN Count(x[1]) ELSE 0
    /\ \A x \in WalkFields(heap, opts) :
         /\ Count(x[1]) >= 1
         /\ Accounted(heap, opts, x[1])
         /\ ~ByValue(heap, x[1]) => Count(x[1]) = 1
    /\ \A i \in DOMAIN Findings :
         /\ Findings[i].want = arg
         /\ Findings[i].got # arg
         /\ Findings[i].got =
              IF Findings[i].idx = -1 THEN heap[Findings[i].cell].s
              ELSE heap[Findings[i].cell].sv[Findings[i].idx + 1]
         /\ \E x \in FieldsOf(heap) : FieldCell(heap, x) = Findings[i].cell
    /\ status = "failed" <=> Findings # <<>>
    /\ heap = prev

\* Four records in a sequence, wrong at indices 1 and 3: exactly the two
\* findings for indices 1 and 3.
C4_Witness ==
  /\ AssertFileDone
  /\ input.g = "slice" /\ Len(done) = 1
  /\ status = "failed"
  /\ Len(Findings) = 2
  /\ Findings[1].cell = 17 /\ Findings[2].cell = 27
  /\ Findings[1].path = << "(", "configtest.setterSlice", ")", "[", "1", "]", ".(",
                           "*", "configtest.fooSetter", ")", ".", "Foo", "File" >>

\* ---------------------------------------------------------------- overrides
\* The descriptor of field x.
KeyOf(h, x) == FieldKey(h[x[1]].t, FieldDecl(h, x).name)

\* The option list in the order p.
Permute(list, p) == [i \in 1..Len(list) |-> list[p[i]]]

\* Field x is the sibling that a file-like field of its record, which the
\* walk acts on, clears.
SiblingOfFile(h, o, x) ==
  /\ h[FieldCell(h, x)].k = "string"
  /\ \E y \in WalkFields(h, o) :
       /\ y[1] = x[1] /\ FileLike(h, o, y)
       /\ TrimSuffix(FieldDecl(h, y).name, "File") = FieldDecl(h, x).name

\* Field x is included, not excluded and not named as a file.
IncludedOnly(h, o, x) ==
  /\ KeyOf(h, x) \in o.include \ o.exclude
  /\ ~HasSuffix(FieldDecl(h, x).name, "File")
  /\ ~HasSuffix(FieldDecl(h, x).name, "Files")

\* C5 as claimed, for SetFile: a field whose descriptor is excluded (also
\* when it is included as well) is left unchanged.
C5_ExcludedUnchanged ==
  SetFileDone =>
    \A x \in FieldsOf(heap) :
      KeyOf(heap, x) \in opts.exclude =>
        heap[FieldCell(heap, x)] = prev[FieldCell(heap, x)]

\* C5 amended: the fields of a call are the same for every permutation of
\* the option list; an excluded field, included or not, is treated as
\* excluded: AssertFile reports nothing for it and SetFile never assigns
\* path to it, and leaves it unchanged unless it is the string sibling X of
\* a file-like field XFile of its record, when it is cleared; a string or
\* []string field that is included, not excluded, not named as a file, can
\* be set and belongs to a record the walk comes to is treated as file-like
\* by both operations.
C5_ExcludedWins ==
  /\ op \in {"SetFile", "AssertFile"} =>
       \A p \in Perms(Len(options)) :
         opts = ApplyOptions(NoFields, Permute(options, p))
  /\ SetFileDone =>
       \A x \in FieldsOf(heap) :
         /\ KeyOf(heap, x) \in opts.exclude =>
              heap[FieldCell(heap, x)] =
                IF x[1] \in WalkClosure(heap, opts, {1}) /\ SiblingOfFile(heap, opts, x)
                  THEN [prev[FieldCell(heap, x)] EXCEPT !.s = Empty]
                  ELSE prev[FieldCell(heap, x)]
         /\ (IncludedOnly(heap, opts, x) /\ x \in WalkFields(heap, opts)) =>
              /\ IsStringTyp(heap[FieldCell(heap, x)]) =>
                   heap[FieldCell(heap, x)].s =
                     IF ClearedLater(heap, opts, x) THEN Empty ELSE arg
              /\ IsStringSliceTyp(heap[FieldCell(heap, x)]) =>
                   heap[FieldCell(heap, x)].sv = <<arg>>
  /\ AssertFileDone =>
       \A x \in FieldsOf(heap) : \A idx \in -1..3 :
         /\ KeyOf(heap, x) \in opts.exclude => Reported(FieldCell(heap, x), idx) = 0
         /\ (IncludedOnly(heap, opts, x) /\ x \in WalkFields(heap, opts)
               /\ idx \in Differing(heap, opts, x, arg)) =>
              Reported(FieldCell(heap, x), idx) >= 1

\* A field both included and excluded, differing from path, after SetFile,
\* with the options given in either order.
C5_Witness ==
  /\ SetFileDone
  /\ input.g = "includeFile"
  /\ Len(options) = 2 /\ options[1].kind = "exclude" /\ options[2].kind = "include"
  /\ KeyOf(heap, <<2, 1>>) \in opts.include \cap opts.exclude
  /\ heap[3].s = absPath

\* ---------------------------------------------------------------- siblings
\* The cell of the sibling of field x: the field of the same record named
\* as x without the suffix File; 0 when there is none.
SiblingCell(h, x) ==
  LET i == FieldByName(h[x[1]].t, TrimSuffix(FieldDecl(h, x).name, "File"))
  IN IF i = 0 THEN 0 ELSE h[x[1]].elems[i]

\* The next step of SetFile acts on the file-like string field x.
AtFileField(x) ==
  /\ op = "SetFile" /\ status = "ok" /\ stack # <<>>
  /\ Top.pc = "loop" /\ x = <<Top.c, Top.i>>
  /\ x \in FieldsOf(heap)
  /\ Taken(heap, opts, x) /\ FileLike(heap, opts, x)

\* The fields no step of SetFile assigns path to.
NotWritten(h, o, c) ==
  \A y \in WalkFields(h, o) :
    FieldCell(h, y) = c => ~FileLike(h, o, y) /\ ~FilesLike(h, o, y)

\* C6 as claimed: the sibling X of a file-like field XFile that SetFile
\* acts on is cleared exactly when its declared type is the plain string
\* type; a sibling of type config.Secret keeps its value.
C6_SecretKept ==
  SetFileDone =>
    \A x \in WalkFields(heap, opts) :
      (FileLike(heap, opts, x) /\ SiblingCell(heap, x) # 0
         /\ NotWritten(heap, opts, SiblingCell(heap, x))) =>
        heap[SiblingCell(heap, x)] =
          IF IsStringTyp(prev[SiblingCell(heap, x)])
            THEN [prev[SiblingCell(heap, x)] EXCEPT !.s = Empty]
            ELSE prev[SiblingCell(heap, x)]

\* C6 amended: when SetFile acts on a file-like string field XFile, the
\* sibling X of the same record is cleared to the empty string if and only
\* if X exists and its kind is string, which includes a sibling of type
\* config.Secret; a sibling of any other kind keeps its value, XFile is set
\* to path and nothing else changes in that step.
C6_ClearsStringKind ==
  /\ [][ \A x \in FieldsOf(heap) :
           AtFileField(x) =>
             \A c \in DOMAIN heap :
               heap'[c] =
                 IF c = FieldCell(heap, x) THEN [heap[c] EXCEPT !.s = arg]
                 ELSE IF c = SiblingCell(heap, x) /\ heap[c].k = "string"
                   THEN [heap[c] EXCEPT !.s = Empty]
                 ELSE heap[c] ]_vars
  /\ [](SetFileDone =>
          \A x \in WalkFields(heap, opts) :
            (FileLike(heap, opts, x) /\ SiblingCell(heap, x) # 0
               /\ NotWritten(heap, opts, SiblingCell(heap, x))) =>
              heap[SiblingCell(heap, x)] =
                IF prev[SiblingCell(heap, x)].k = "string"
                  THEN [prev[SiblingCell(heap, x)] EXCEPT !.s = Empty]
                  ELSE prev[SiblingCell(heap, x)])

\* A secret sibling has been cleared and its file field set.
C6_Witness ==
  /\ SetFileDone
  /\ input.g = "foo"
  /\ prev[3].t = "config.Secret" /\ prev[3].s = secret
  /\ heap[3].s = Empty
  /\ heap[4].s = arg

\* ---------------------------------------------------------------- idempotence
\* The last two calls were SetFile with the same path and options, and the
\* second has returned.
SetFileTwice ==
  /\ Returned("SetFile")
  /\ Len(done) >= 2 /\ done[Len(done) - 1] = "SetFile"
  /\ mode = "client"

\* C7: SetFile is idempotent: the graph after the second of two SetFile
\* calls with the same path and options equals the graph after the first.
C7_Idempotent == SetFileTwice => heap = prev

\* The second call ran on a record whose file-like field KeyFile is also
\* the sibling of KeyFileFile, and on a graph the first call had changed.
C7_Witness ==
  /\ SetFileTwice
  /\ input.g = "keyPair" /\ input.d
  /\ heap[4].s = Empty /\ heap[5].s = arg
  /\ heap # Graph(input)
  /\ Count(2) = 1

\* ---------------------------------------------------------------- propagation
\* The non-nil values of graph h that implement the capability, directly
\* (a map or slice type with the method) or through their address (an
\* addressable record whose pointer type has the method).
Capable(h) ==
  { c \in DOMAIN h :
      \/ h[c].k = "struct" /\ h[c].addr /\ MethodRecv(h[c].t) = "ptr"
      \/ h[c].k \in {"map", "slice"} /\ ~h[c].nil /\ MethodRecv(h[c].t) = "val" }

\* C8: SetDirectory never invokes the capability on a nil reference, and
\* when it has returned it has invoked the capability on every non-nil
\* value reachable from the root that implements it, directly or through
\* its address, and has come to that value whether or not the values above
\* it implement the capability.
C8_EveryImplementer ==
  /\ op = "SetDirectory" => \A i \in DOMAIN calls : calls[i].recv # 0
  /\ Returned("SetDirectory") =>
       \A c \in Capable(heap) \cap Reach(heap) :
         Invocations(c) >= 1 /\ Count(c) >= 1

\* ---------------------------------------------------------------- driver failures
\* The one error of a failed load: the load error with the absolute path.
LoadError(kind) ==
  << [kind |-> kind, path |-> absPath, got |-> Empty, want |-> Empty,
      cell |-> 0, idx |-> -1] >>

\* C9: in TestSetDirectory a loader failure is fatal.  When the first load
\* fails nothing else is ever performed: no SetFile, SetDirectory, second
\* load, equality assertion or AssertFile.  When the second load fails, the
\* SetFile on the second graph, the equality assertion and AssertFile are
\* never performed.  In both cases exactly one error is reported, the load
\* error with the absolute path.  (A caller whose option construction
\* panics never calls the driver, and nothing is performed or reported.)
C9_LoadFailureFatal ==
  /\ (mode = "driver" /\ fail = "load1") =>
       /\ tpc = "start" /\ op = "idle" /\ done = <<>> /\ heap = <<>>
       /\ want = <<>>
       /\ errors = IF status = "failed" THEN LoadError("load1") ELSE <<>>
       /\ status \in {"ok", "failed", "panic"}
  /\ (mode = "driver" /\ fail = "load2") =>
       /\ tpc \in {"start", "setdir", "load"}
       /\ \A i \in DOMAIN done : done[i] # "AssertFile"
       /\ Len(done) <= 2
       /\ errors = IF status = "failed" THEN LoadError("load2") ELSE <<>>
       /\ status = "failed" =>
            done = <<"SetFile", "SetDirectory">> /\ op = "idle" /\ want = heap

\* The second load has failed after SetFile and SetDirectory ran on the
\* expected graph.
C9_Witness ==
  /\ mode = "driver" /\ fail = "load2"
  /\ status = "failed"
  /\ errors = LoadError("load2")
  /\ done = <<"SetFile", "SetDirectory">>
  /\ tpc = "load"

\* ---------------------------------------------------------------- driver steps
\* The equality check of the driver has reported a difference.
DiffReported == \E i \in DOMAIN errors : errors[i].kind = "diff"

\* The driver has come to its end or has been stopped.
DriverOver ==
  /\ mode = "driver" /\ op = "idle"
  /\ status = "failed" \/ tpc = "end"

\* C10 as claimed: step 6 always runs after step 5, whatever step 5
\* reported: a driver that is over after a reported difference has run
\* AssertFile.
C10_AlwaysBoth ==
  (DriverOver /\ DiffReported) =>
    tpc = "end" /\ done[Len(done)] = "AssertFile"

\* C10 amended: when the injected equality primitive returns after
\* reporting (t.Errorf), the driver goes on to AssertFile whatever the
\* equality check reported, the difference is reported before the findings
\* of AssertFile, and the test fails by AssertFile exactly when there is a
\* finding; when the primitive stops the test (t.Fatalf), AssertFile is not
\* run and the difference is the last error reported.
C10_BothWhenEqualReturns ==
  /\ (mode = "driver" /\ ~fatalEq) =>
       /\ tpc = "assert" => status = "ok"
       /\ (DriverOver /\ tpc = "end") =>
            /\ done[Len(done)] = "AssertFile"
            /\ status = "failed" <=> Findings # <<>>
            /\ \A i, j \in DOMAIN errors :
                 (errors[i].kind = "diff" /\ errors[j].kind = "mismatch") => i < j
  /\ (mode = "driver" /\ fatalEq /\ DiffReported) =>
       /\ tpc = "assert" /\ status = "failed"
       /\ Findings = <<>>
       /\ \A i \in DOMAIN done : done[i] # "AssertFile"

\* A root whose capability is disabled: the difference, then the finding
\* on the untouched field.
C10_Witness ==
  /\ DriverOver /\ ~fatalEq
  /\ input.g = "inner" /\ input.d
  /\ Len(errors) = 2
  /\ errors[1].kind = "diff"
  /\ errors[2].kind = "mismatch" /\ errors[2].cell = 8
  /\ errors[2].got = relPath /\ errors[2].want = absPath
  /\ errors[2].path = << "(", "*", "configtest.inner", ")", ".", "Child", ".(", "*",
                         "configtest.fooSetter", ")", ".", "Foo", "File" >>

\* ---------------------------------------------------------------- option construction
\* Record type t has a field called name.
HasField(t, name) ==
  \E i \in DOMAIN StructFields(t) : StructFields(t)[i].name = name

\* The sample's type behind all its pointers is a record type with a field
\* called name.
ValidAsk(r) == r.strukt.base \in StructTypes /\ HasField(r.strukt.base, r.name)

\* C11: IncludeField(sample, name) and ExcludeField(sample, name) fail when
\* the option is built, before any traversal or mutation, if and only if
\* the sample's type behind all its pointer layers is not a record type or
\* has no field called name; otherwise they succeed, and a sample given by
\* value and through any number of pointers give the same field descriptor.
C11_FailsAtConstruction ==
  /\ [][ (pending # <<>> /\ pending' = Tail(pending)) =>
          LET r == Head(pending)
          IN /\ status' = "panic" <=> ~ValidAsk(r)
             /\ heap' = heap /\ stack' = <<>> /\ visits' = <<>> /\ done' = <<>>
             /\ ValidAsk(r) =>
                  /\ Len(options') = Len(options) + 1
                  /\ options'[Len(options')].kind = r.kind
                  /\ options'[Len(options')].key =
                       structField(Sample(0, r.strukt.base), r.name)
             /\ \A k \in 0..MaxPtrs :
                  /\ structField(Sample(k, r.strukt.base), r.name) =
                       structField(Sample(0, r.strukt.base), r.name)
                  /\ structField(Sample(k, r.strukt.base), r.name).err = "" <=>
                       ValidAsk(r) ]_vars
  /\ [](status = "panic" =>
          /\ op = "idle" /\ stack = <<>> /\ visits = <<>> /\ calls = <<>>
          /\ done = <<>> /\ errors = <<>> /\ tpc = "start"
          /\ heap = IF mode = "client" THEN Graph(input) ELSE <<>>)

\* An option was built from a sample behind pointers, and the next option
\* failed at construction with the graph untouched.
C11_Witness ==
  /\ status = "panic" /\ mode = "client" /\ heap = Graph(input)
  /\ Len(options) = 1 /\ options[1].key = FieldKey("configtest.includeFile", <<"Extra">>)
  /\ options[1].kind = "exclude"

\* ---------------------------------------------------------------- cycles without pointers
\* The maps and slices that hold themselves: the value is reachable from
\* its own keys, values or elements with no pointer on the way.
RECURSIVE PlainClosure(_, _)
PlainClosure(h, cs) ==
  LET more == cs \cup UNION { IF h[c].k = "ptr" THEN {} ELSE Children(h[c]) : c \in cs }
  IN IF more = cs THEN cs ELSE PlainClosure(h, more)

PlainLoops(h) ==
  { c \in DOMAIN h :
      /\ h[c].k \in {"map", "slice"}
      /\ \E q \in PlainClosure(h, Children(h[c])) :
           /\ q # c /\ h[q].k = h[c].k /\ h[q].t = h[c].t
           /\ h[q].keys = h[c].keys /\ h[q].elems = h[c].elems }

\* C12: SetFile, AssertFile and SetDirectory terminate on every finite
\* graph, whichever kind of node closes a cycle, also a map or a slice
\* that holds itself through an interface with no pointer on the cycle:
\* no call exhausts the stack.
C12_TerminatesOnAnyCycle ==
  PlainLoops(Graph(input)) # {} => status # "overflow"

\* ---------------------------------------------------------------- skipped fields
\* SetFile or AssertFile has returned and nothing has touched the graph since.
FileWalkDone == SetFileDone \/ AssertFileDone

\* Field x holds a container: a record, pointer, map, interface or a slice
\* other than a []string, and it is not nil.
Container(h, x) ==
  /\ h[FieldCell(h, x)].k \in {"struct", "ptr", "map", "iface", "slice"}
  /\ ~IsStringSliceTyp(h[FieldCell(h, x)])
  /\ ~isNil(h[FieldCell(h, x)])

\* Field x is exported and in an addressable record.
Settable(h, x) == h[FieldCell(h, x)].addr /\ FieldDecl(h, x).exp

\* Field x is excluded by an override.
Excluded(h, o, x) ==
  [Struct |-> h[x[1]].t, Name |-> FieldDecl(h, x).name, err |-> ""] \in o.exclude

\* A pointer of the graph points to the cell of field x.
PointedTo(h, x) ==
  \E q \in DOMAIN h : h[q].k = "ptr" /\ ~h[q].nil /\ h[q].ref = FieldCell(h, x)

\* The cells beneath field x that the walk reaches in no other way.
OnlyBeneath(h, o, x) ==
  Closure(h, Children(h[FieldCell(h, x)])) \ WalkClosure(h, o, {1})

\* C13 as claimed: in SetFile and AssertFile an excluded field that can be
\* set and holds a container is still descended into, in every record the
\* walk processed.
C13_ExcludedDescended ==
  FileWalkDone =>
    \A x \in FieldsOf(heap) :
      (Count(x[1]) >= 1 /\ Settable(heap, x) /\ Excluded(heap, opts, x)
         /\ Container(heap, x)) =>
        Count(FieldCell(heap, x)) >= 1

\* C13 amended: in SetFile and AssertFile a field is skipped entirely,
\* neither given the leaf action nor descended into, when it is unexported
\* or not settable and also when it is excluded by an override: an excluded
\* container is not descended into, and the cells reached only beneath it
\* are not entered, rewritten or reported; the skipped field itself changes
\* only as the string sibling X that a file-like field XFile clears.  A
\* container field that can be set and is not excluded is descended into.
C13_ExcludedSkipped ==
  FileWalkDone =>
    \A x \in FieldsOf(heap) :
      Count(x[1]) >= 1 =>
        IF ~Settable(heap, x) \/ Excluded(heap, opts, x)
          THEN /\ ~PointedTo(heap, x) => Count(FieldCell(heap, x)) = 0
               /\ ~SiblingOfFile(heap, opts, x) =>
                    heap[FieldCell(heap, x)] = prev[FieldCell(heap, x)]
               /\ \A i \in DOMAIN errors : errors[i].cell # FieldCell(heap, x)
               /\ \A c \in OnlyBeneath(heap, opts, x) :
                    /\ Count(c) = 0
                    /\ heap[c] = prev[c]
                    /\ \A i \in DOMAIN errors : errors[i].cell # c
          ELSE Container(heap, x) => Count(FieldCell(heap, x)) >= 1

\* SetFile has returned from a record with an excluded pointer field that
\* it did not follow, and a file-like field beneath it still differs from
\* the path.
C13_Witness ==
  /\ SetFileDone
  /\ \E x \in FieldsOf(heap) :
       /\ Count(x[1]) >= 1 /\ Settable(heap, x) /\ Excluded(heap, opts, x)
       /\ heap[FieldCell(heap, x)].k = "ptr" /\ Container(heap, x)
       /\ Count(FieldCell(heap, x)) = 0
       /\ \E y \in FieldsOf(heap) :
            /\ y[1] \in OnlyBeneath(heap, opts, x)
            /\ Settable(heap, y) /\ FileLike(heap, opts, y)
            /\ heap[FieldCell(heap, y)].s # arg

\* ---------------------------------------------------------------- fields of SetDirectory
\* The cells at and beneath field x that the walk of SetDirectory, which
\* has no overrides, reaches in no other way.
BehindOnly(h, x) ==
  Closure(h, {FieldCell(h, x)}) \ WalkClosure(h, NoFields, {1})

\* C14 as claimed: SetDirectory descends into every field of each record
\* it processes, also the fields that are unexported or cannot be set.
C14_EveryField ==
  Returned("SetDirectory") =>
    \A x \in FieldsOf(heap) :
      (Count(x[1]) >= 1 /\ ~isNil(heap[FieldCell(heap, x)])) =>
        Count(FieldCell(heap, x)) >= 1

\* C14 amended: SetDirectory descends into the fields of a record that can
\* be set and skips the others, as SetFile and AssertFile do: a value
\* reachable only through an unexported field or a field of a record that
\* is not addressable is not entered and the capability is not invoked
\* on it.
C14_SettableOnly ==
  Returned("SetDirectory") =>
    \A x \in FieldsOf(heap) :
      Count(x[1]) >= 1 =>
        IF Settable(heap, x)
          THEN ~isNil(heap[FieldCell(heap, x)]) => Count(FieldCell(heap, x)) >= 1
          ELSE /\ ~PointedTo(heap, x) => Count(FieldCell(heap, x)) = 0
               /\ \A c \in BehindOnly(heap, x) :
                    Count(c) = 0 /\ Invocations(c) = 0

\* SetDirectory has returned from a record with an unexported pointer to a
\* value that has the capability, without entering or invoking it.
C14_Witness ==
  /\ Returned("SetDirectory")
  /\ \E x \in FieldsOf(heap) :
       /\ Count(x[1]) >= 1 /\ ~FieldDecl(heap, x).exp
       /\ heap[FieldCell(heap, x)].k = "ptr" /\ ~isNil(heap[FieldCell(heap, x)])
       /\ heap[FieldCell(heap, x)].ref \in BehindOnly(heap, x)
       /\ MethodRecv(heap[heap[FieldCell(heap, x)].ref].t) = "ptr"
       /\ Count(FieldCell(heap, x)) = 0
       /\ Invocations(heap[FieldCell(heap, x)].ref) = 0

====
